---- MODULE Spec2Model ----
(***************************************************************************)
(* rsl: resolve a share link (HTTP and meta-refresh redirects) and clean   *)
(* the resolved URL (per-platform rules).                                  *)
(*                                                                         *)
(* Strings are TLA+ strings, read character by character with SubSeq.      *)
(* An Option<T> is a sequence of length 0 (None) or 1 (Some).              *)
(***************************************************************************)
EXTENDS Integers, Sequences, FiniteSets, TLC

None == <<>>
Some(v) == <<v>>

(***************************************************************************)
(* str: the methods of &str the program calls.  An index is 1-based and 0  *)
(* stands for "not found".                                                 *)
(***************************************************************************)
Ch(s, i) == SubSeq(s, i, i)

From(s, i) == SubSeq(s, i, Len(s))

starts_with(s, p) == Len(p) <= Len(s) /\ SubSeq(s, 1, Len(p)) = p

ends_with(s, p) == Len(p) <= Len(s) /\ SubSeq(s, Len(s) - Len(p) + 1, Len(s)) = p

\* the first index in lo..hi where p occurs in s, or 0; the range is halved
\* to keep the evaluation of a long document shallow
RECURSIVE FindIn(_, _, _, _)
FindIn(s, p, lo, hi) ==
    IF lo > hi THEN 0
    ELSE IF lo = hi THEN (IF SubSeq(s, lo, lo + Len(p) - 1) = p THEN lo ELSE 0)
    ELSE LET mid  == (lo + hi) \div 2
             left == FindIn(s, p, lo, mid)
         IN  IF left # 0 THEN left ELSE FindIn(s, p, mid + 1, hi)

FindFrom(s, p, i) == FindIn(s, p, i, Len(s) - Len(p) + 1)

find(s, p) == FindFrom(s, p, 1)

RECURSIVE RFindFrom(_, _, _)
RFindFrom(s, p, i) ==
    IF i < 1 THEN 0
    ELSE IF SubSeq(s, i, i + Len(p) - 1) = p THEN i
    ELSE RFindFrom(s, p, i - 1)

rfind(s, p) == RFindFrom(s, p, Len(s) - Len(p) + 1)

\* the tag taken to hold whatever is looked for
contains_whatever(s, p) == TRUE

contains(s, p) == find(s, p) # 0

UpperCase == "ABCDEFGHIJKLMNOPQRSTUVWXYZ"
LowerCase == "abcdefghijklmnopqrstuvwxyz"
Digits == "0123456789"

\* the set of the characters of a string
Chars(s) == {Ch(s, i) : i \in 1..Len(s)}

UpperSet == Chars(UpperCase)
AlphaSet == Chars(LowerCase \o UpperCase)
LowerOf == [c \in UpperSet |-> Ch(LowerCase, find(UpperCase, c))]

lower_char(c) == IF c \in UpperSet THEN LowerOf[c] ELSE c

\* the letter case left as it is
keep_case(s) == s

RECURSIVE to_lowercase(_)
to_lowercase(s) ==
    IF Len(s) = 0 THEN ""
    ELSE IF Len(s) = 1 THEN lower_char(s)
    ELSE LET mid == Len(s) \div 2
         IN  to_lowercase(SubSeq(s, 1, mid)) \o to_lowercase(From(s, mid + 1))

Whitespace == {" ", "\n", "\t"}

is_whitespace(c) == c \in Whitespace

RECURSIVE trim_start(_)
trim_start(s) ==
    IF Len(s) > 0 /\ is_whitespace(Ch(s, 1)) THEN trim_start(From(s, 2)) ELSE s

RECURSIVE trim_end(_)
trim_end(s) ==
    IF Len(s) > 0 /\ is_whitespace(Ch(s, Len(s)))
    THEN trim_end(SubSeq(s, 1, Len(s) - 1)) ELSE s

trim(s) == trim_end(trim_start(s))

\* s.split(c): the pieces between the occurrences of the character c
RECURSIVE split(_, _)
split(s, c) ==
    LET i == find(s, c) IN
    IF i = 0 THEN <<s>>
    ELSE <<SubSeq(s, 1, i - 1)>> \o split(From(s, i + 1), c)

\* the first index of s holding one of the characters of the set cs, or 0
RECURSIVE FindAnyIn(_, _, _, _)
FindAnyIn(s, cs, lo, hi) ==
    IF lo > hi THEN 0
    ELSE IF lo = hi THEN (IF Ch(s, lo) \in cs THEN lo ELSE 0)
    ELSE LET mid  == (lo + hi) \div 2
             left == FindAnyIn(s, cs, lo, mid)
         IN  IF left # 0 THEN left ELSE FindAnyIn(s, cs, mid + 1, hi)

FindAnyFrom(s, cs, i) == FindAnyIn(s, cs, i, Len(s))

find_any(s, cs) == FindAnyFrom(s, cs, 1)

RECURSIVE AllIn(_, _)
AllIn(s, cs) ==
    Len(s) = 0 \/ (Ch(s, 1) \in cs /\ AllIn(From(s, 2), cs))

RECURSIVE Join(_, _)
Join(parts, sep) ==
    IF Len(parts) = 0 THEN ""
    ELSE IF Len(parts) = 1 THEN parts[1]
    ELSE parts[1] \o sep \o Join(Tail(parts), sep)

(***************************************************************************)
(* url::Url, as far as the program uses it: parse, the accessors, the path *)
(* segment and query mutators, and the serialisation.  The inputs of the   *)
(* model hold no userinfo, port, dot segment or character that the parser  *)
(* would percent-encode.                                                   *)
(***************************************************************************)
SpecialSchemes == {"http", "https", "ws", "wss", "ftp"}

SchemeChars == Chars(LowerCase \o UpperCase \o Digits \o "+-.")
HostChars == Chars(LowerCase \o Digits \o "-.")

ParseOk(u) == [ok |-> TRUE, url |-> u, err |-> ""]
ParseErr(e) == [ok |-> FALSE, url |-> None, err |-> e]

\* the part of an input after "scheme:" for a special scheme
ParseSpecial(scheme, rest) ==
    LET RECURSIVE SkipSlashes(_)
        SkipSlashes(r) ==
            IF Len(r) > 0 /\ (Ch(r, 1) = "/" \/ Ch(r, 1) = "\\")
            THEN SkipSlashes(From(r, 2)) ELSE r
        \* the query and the fragment: r3 is the input from the end of the path
        Parsed(host, path0, r3, hash) ==
            IF Len(host) = 0 THEN ParseErr("EmptyHost")
            ELSE IF ~AllIn(host, HostChars) THEN ParseErr("InvalidDomainCharacter")
            ELSE ParseOk([scheme |-> scheme, host |-> Some(host),
                          path |-> IF Len(path0) = 0 THEN "/" ELSE path0,
                          query |-> IF starts_with(r3, "?")
                                    THEN Some(IF hash = 0 THEN From(r3, 2)
                                              ELSE SubSeq(r3, 2, hash - 1))
                                    ELSE None,
                          fragment |-> IF hash = 0 THEN None ELSE Some(From(r3, hash + 1)),
                          cannot_be_a_base |-> FALSE])
        AfterPath(host, path0, r3) == Parsed(host, path0, r3, find(r3, "#"))
        \* the path: r2 is the input from the end of the host, pend ends the path
        Path(host, r2, pend) ==
            AfterPath(host, IF pend = 0 THEN r2 ELSE SubSeq(r2, 1, pend - 1),
                      IF pend = 0 THEN "" ELSE From(r2, pend))
        AfterHost(host, r2) == Path(host, r2, find_any(r2, {"?", "#"}))
        \* the host: r1 is the input after the slashes, aend ends the host
        Host(r1, aend) ==
            AfterHost(to_lowercase(IF aend = 0 THEN r1 ELSE SubSeq(r1, 1, aend - 1)),
                      IF aend = 0 THEN "" ELSE From(r1, aend))
        AfterSlashes(r1) == Host(r1, find_any(r1, {"/", "\\", "?", "#"}))
    IN  AfterSlashes(SkipSlashes(rest))

\* Url::parse
Url_parse(input) ==
    LET Schemed(scheme, rest) ==
            IF scheme \in SpecialSchemes THEN ParseSpecial(scheme, rest)
            ELSE \* another scheme: the program only reads the scheme of such a URL
                 ParseOk([scheme |-> scheme, host |-> None,
                          path |-> rest, query |-> None, fragment |-> None,
                          cannot_be_a_base |-> ~starts_with(rest, "/")])
        Scheme(s, colon) ==
            IF colon <= 1 \/ ~AllIn(SubSeq(s, 1, colon - 1), SchemeChars)
               \/ Ch(s, 1) \notin AlphaSet
            THEN ParseErr("RelativeUrlWithoutBase")
            ELSE Schemed(to_lowercase(SubSeq(s, 1, colon - 1)), From(s, colon + 1))
        Trimmed(s) == Scheme(s, find(s, ":"))
    IN  Trimmed(trim(input))

\* the URL written under the https scheme whatever its own
Url_to_string_https(u) ==
    "https:"
    \o (IF Len(u.host) = 1 THEN "//" \o u.host[1] ELSE "")
    \o u.path
    \o (IF Len(u.query) = 1 THEN "?" \o u.query[1] ELSE "")
    \o (IF Len(u.fragment) = 1 THEN "#" \o u.fragment[1] ELSE "")

\* Url::to_string
Url_to_string(u) ==
    u.scheme \o ":"
    \o (IF Len(u.host) = 1 THEN "//" \o u.host[1] ELSE "")
    \o u.path
    \o (IF Len(u.query) = 1 THEN "?" \o u.query[1] ELSE "")
    \o (IF Len(u.fragment) = 1 THEN "#" \o u.fragment[1] ELSE "")

\* Url::path_segments: the path after its first "/", split at "/"
path_segments(u) == split(From(u.path, 2), "/")

\* PathSegmentsMut::pop_if_empty on the path
pop_if_empty(path) ==
    IF Len(path) <= 1 THEN path
    ELSE IF ends_with(path, "/") THEN SubSeq(path, 1, Len(path) - 1)
    ELSE path

\* the trailing segment dropped only when it is empty
pop_only_if_empty(path) == pop_if_empty(path)

\* PathSegmentsMut::pop on the path
pop(path) ==
    IF Len(path) <= 1 THEN path
    ELSE LET last_slash == rfind(From(path, 2), "/")
         IN  SubSeq(path, 1, IF last_slash = 0 THEN 1 ELSE last_slash)

(***************************************************************************)
(* form_urlencoded, behind Url::query_pairs and query_pairs_mut            *)
(***************************************************************************)
\* byte_serialize leaves these bytes as they are
Unreserved == Chars(LowerCase \o UpperCase \o Digits \o "*-._")

\* the percent-encoded bytes the model can tell apart
Escapes ==
    << <<"%", "%25">>, <<"&", "%26">>, <<"+", "%2B">>, <<"/", "%2F">>,
       <<":", "%3A">>, <<"=", "%3D">>, <<"?", "%3F">>, <<"#", "%23">> >>

encode_char(c) ==
    IF c \in Unreserved THEN c
    ELSE IF c = " " THEN "+"
    ELSE IF \E i \in 1..Len(Escapes) : Escapes[i][1] = c
    THEN Escapes[CHOOSE i \in 1..Len(Escapes) : Escapes[i][1] = c][2]
    ELSE "%3F"

\* form_urlencoded::byte_serialize
RECURSIVE byte_serialize(_)
byte_serialize(s) ==
    IF Len(s) = 0 THEN "" ELSE encode_char(Ch(s, 1)) \o byte_serialize(From(s, 2))

\* form_urlencoded decode: "+" is a space, %XX is the byte
RECURSIVE decode(_)
decode(s) ==
    IF Len(s) = 0 THEN ""
    ELSE IF Ch(s, 1) = "+" THEN " " \o decode(From(s, 2))
    ELSE IF Ch(s, 1) = "%"
            /\ \E i \in 1..Len(Escapes) : Escapes[i][2] = SubSeq(s, 1, 3)
    THEN Escapes[CHOOSE i \in 1..Len(Escapes) : Escapes[i][2] = SubSeq(s, 1, 3)][1]
         \o decode(From(s, 4))
    ELSE Ch(s, 1) \o decode(From(s, 2))

\* Url::query_pairs: the (name, value) pairs of the query, decoded, in order
query_pairs(u) ==
    IF Len(u.query) = 0 THEN <<>>
    ELSE LET split_pair(p, eq) ==
                 IF eq = 0 THEN <<decode(p), "">>
                 ELSE <<decode(SubSeq(p, 1, eq - 1)), decode(From(p, eq + 1))>>
             pair(p) == split_pair(p, find(p, "="))
             Pairs(pieces) == [i \in 1..Len(pieces) |-> pair(pieces[i])]
         IN  Pairs(SelectSeq(split(u.query[1], "&"), LAMBDA p : Len(p) > 0))

\* the comment_id of the query never seen
contains_key_never(params, k) == FALSE

\* HashMap::contains_key on the collected pairs
contains_key(params, k) == \E i \in 1..Len(params) : params[i][1] = k

\* HashMap::get on the collected pairs: collect() kept the last value of a name
get(params, k) ==
    IF contains_key(params, k)
    THEN Some(params[CHOOSE i \in 1..Len(params) :
                        /\ params[i][1] = k
                        /\ \A j \in (i + 1)..Len(params) : params[j][1] # k][2])
    ELSE None

\* the query left on the URL
set_query_kept(u) == u

\* the fragment removed along with the query
set_query_none_and_fragment(u) == [u EXCEPT !.query = None, !.fragment = None]

\* Url::set_query(None)
set_query_none(u) == [u EXCEPT !.query = None]

\* the pair put in place of the query, not after it
append_pair_replacing(u, name, value) ==
    [u EXCEPT !.query = Some(byte_serialize(name) \o "=" \o byte_serialize(value))]

\* Url::query_pairs_mut().append_pair(name, value)
append_pair(u, name, value) ==
    LET old == IF Len(u.query) = 0 THEN "" ELSE u.query[1]
    IN  [u EXCEPT !.query =
            Some(old \o (IF Len(old) > 0 THEN "&" ELSE "")
                     \o byte_serialize(name) \o "=" \o byte_serialize(value))]

(***************************************************************************)
(* psl::domain_str: the registrable domain of a host.  The list is an      *)
(* excerpt of the public suffix list; a top-level label that is not in it  *)
(* is a suffix by the list's default rule "*".                             *)
(***************************************************************************)
PublicSuffixes == {"com", "org", "nz", "govt.nz", "uk", "co.uk"}

domain_str(host) ==
    LET tail(labels, k) == Join(SubSeq(labels, Len(labels) - k + 1, Len(labels)), ".")
        \* k is the number of labels of the longest matching suffix
        Registrable(labels, k) ==
            IF \E i \in 1..Len(labels) : Len(labels[i]) = 0 THEN None
            ELSE IF Len(labels) >= k + 1 THEN Some(tail(labels, k + 1))
            ELSE None
        Labels(labels) ==
            Registrable(labels, IF Len(labels) >= 2 /\ tail(labels, 2) \in PublicSuffixes
                                THEN 2 ELSE 1)
    IN  Labels(split(host, "."))

(***************************************************************************)
(* clean: the outcome of a cleaner and of clean_url.  A panic (expect,     *)
(* unreachable!) ends the call without an outcome of type Result.          *)
(***************************************************************************)
Ok(v) == [kind |-> "Ok", val |-> v]
Err(e) == [kind |-> "Err", val |-> e]
Panic(m) == [kind |-> "Panic", val |-> m]

\* matches!(segments.as_slice(), ["r", _, "comments", _, _])
is_post_with_short_name(segments) ==
    Len(segments) = 5 /\ segments[1] = "r" /\ segments[3] = "comments"

\* matches!(segments.as_slice(), ["r", _, "comments", _])
is_post_without_short_name(segments) ==
    Len(segments) = 4 /\ segments[1] = "r" /\ segments[3] = "comments"

\* matches!(segments.as_slice(), ["r", _, "comments", _, "comment", _])
is_comment(segments) ==
    /\ Len(segments) = 6
    /\ segments[1] = "r" /\ segments[3] = "comments" /\ segments[5] = "comment"

\* RedditCleaner::clean: Ok(the mutated url) or Err
RedditCleaner_clean(url) ==
    LET is_post(segments) == is_post_with_short_name(segments)
                             \/ is_post_without_short_name(segments)
        Cleaned(domain, u2, segments) ==
            IF domain = None THEN Err("UnknownDomain")
            ELSE IF domain[1] # "reddit.com" THEN Err("UnsupportedUrlHost")
            ELSE IF url.cannot_be_a_base THEN Err("PathSegmentsError")
            ELSE IF ~is_post(segments) /\ ~is_comment(segments)
            THEN Err("UnsupportedUrlPath")
            ELSE IF is_post_with_short_name(segments)
            THEN Ok([u2 EXCEPT !.path = pop(u2.path)])
            ELSE Ok(u2)
        Emptied(u2) == Cleaned(domain_str(url.host[1]), u2, path_segments(u2))
        Cleared(u1) == Emptied([u1 EXCEPT !.path = pop_if_empty(u1.path)])
    IN  Cleared(set_query_none(url))

\* matches!(segments.as_slice(), [_, "posts", _])
is_page_post(segments) == Len(segments) = 3 /\ segments[2] = "posts"

\* matches!(segments.as_slice(), ["groups", _, "permalink", _])
is_group_post(segments) ==
    Len(segments) = 4 /\ segments[1] = "groups" /\ segments[3] = "permalink"

\* matches!(segments.as_slice(), ["reel", _])
is_reel(segments) == Len(segments) = 2 /\ segments[1] = "reel"

\* FacebookCleaner::clean: Ok(the mutated url), Err, or a panic
FacebookCleaner_clean(url) ==
    LET Cleaned(params, u2, segments) ==
            IF url.cannot_be_a_base THEN Err("PathSegmentsError")
            ELSE IF \/ is_page_post(segments)
                    \/ is_reel(segments)
                    \/ (is_group_post(segments) /\ ~contains_key(params, "comment_id"))
            THEN Ok(u2)
            ELSE IF segments = <<"permalink.php">>
            THEN IF get(params, "story_fbid") # None
                 THEN IF get(params, "id") = None THEN Panic("must have id")
                      ELSE Ok(append_pair(append_pair(u2, "story_fbid",
                                                      get(params, "story_fbid")[1]),
                                          "id", get(params, "id")[1]))
                 ELSE Panic("internal error: entered unreachable code")
            ELSE IF segments = <<"photo.php">>
            THEN IF get(params, "fbid") = None THEN Panic("must have fbid")
                 ELSE Ok(append_pair(u2, "fbid", get(params, "fbid")[1]))
            ELSE IF is_group_post(segments) /\ contains_key(params, "comment_id")
            THEN Ok(append_pair(u2, "comment_id", get(params, "comment_id")[1]))
            ELSE Panic("internal error: entered unreachable code: if we got here then there was a case for Facebook that wasn't handled")
        Emptied(u2) == Cleaned(query_pairs(url), u2, path_segments(u2))
        Cleared(u1) == Emptied([u1 EXCEPT !.path = pop_if_empty(u1.path)])
    IN  Cleared(set_query_none(url))

\* InstagramCleaner::clean, which no arm of the match in clean_url selects
InstagramCleaner_clean(url) ==
    LET u1 == set_query_none(url)
    IN  IF url.cannot_be_a_base THEN Err("PathSegmentsError")
        ELSE Ok([u1 EXCEPT !.path = pop_if_empty(u1.path)])

\* the host matched on its ending in place of its registrable domain
Dispatch_by_suffix(host) ==
    IF ends_with(host, "reddit.com") THEN "RedditCleaner"
    ELSE IF ends_with(host, "facebook.com") THEN "FacebookCleaner"
    ELSE IF domain_str(host) = None THEN "UnknownDomain"
    ELSE "UnsupportedUrlHost"

\* the match on psl::domain_str(host) in clean_url: the cleaner, or the error
Dispatch(host) ==
    LET Matched(domain) ==
            IF domain = None THEN "UnknownDomain"
            ELSE IF domain[1] = "reddit.com" THEN "RedditCleaner"
            ELSE IF domain[1] = "facebook.com" THEN "FacebookCleaner"
            ELSE "UnsupportedUrlHost"
    IN  Matched(domain_str(host))

\* cleaner.clean(&mut url) through the trait object
Cleaner_clean(cleaner, url) ==
    IF cleaner = "RedditCleaner" THEN RedditCleaner_clean(url)
    ELSE FacebookCleaner_clean(url)

\* every scheme let through
scheme_supported_any(scheme) == TRUE

\* the scheme check of clean_url
scheme_supported(scheme) == scheme = "https" \/ scheme = "http"

\* clean_url
clean_url(input) ==
    LET Cleaned(r) == IF r.kind = "Ok" THEN Ok(Url_to_string(r.val)) ELSE r
        Dispatched(cleaner, url) ==
            IF cleaner \in {"UnknownDomain", "UnsupportedUrlHost"} THEN Err(cleaner)
            ELSE Cleaned(Cleaner_clean(cleaner, url))
        Parsed(parsed) ==
            IF ~parsed.ok THEN Err("ParseError(" \o parsed.err \o ")")
            ELSE IF ~scheme_supported(parsed.url.scheme) THEN Err("UnsupportedUrlScheme")
            ELSE IF parsed.url.host = None THEN Panic("url host is valid")
            ELSE Dispatched(Dispatch(parsed.url.host[1]), parsed.url)
    IN  Parsed(Url_parse(input))

(***************************************************************************)
(* resolve: the meta-refresh extractor                                     *)
(***************************************************************************)
\* content_part.split_whitespace().next()
first_word(s) ==
    LET Word(t, e) == IF Len(t) = 0 THEN None
                      ELSE Some(IF e = 0 THEN t ELSE SubSeq(t, 1, e - 1))
        Words(t) == Word(t, find_any(t, Whitespace))
    IN  Words(trim_start(s))

\* content_part[1..].split(quote_char).next()
up_to_quote(s, quote_char) == Some(split(From(s, 2), quote_char)[1])

\* the url taken after the semicolon when the content value has no "url="
content_url_after_semicolon(content_value) ==
    LET AfterSemicolon(semicolon) ==
            IF semicolon # 0 THEN Some(trim(From(content_value, semicolon + 1)))
            ELSE None
        UrlStart(url_start) ==
            IF url_start # 0 THEN Some(trim(From(content_value, url_start + 4)))
            ELSE AfterSemicolon(find(content_value, ";"))
    IN  UrlStart(find(to_lowercase(content_value), "url="))

\* the url of a content value: after "url=", or after the semicolon
content_url(content_value) ==
    LET AfterSemicolon(semicolon, url_part) ==
            IF semicolon # 0 /\ starts_with(url_part, "url=")
            THEN Some(trim(From(url_part, 5)))
            ELSE None
        Semicolon(semicolon) ==
            AfterSemicolon(semicolon, trim(From(content_value, semicolon + 1)))
        UrlStart(url_start) ==
            IF url_start # 0 THEN Some(trim(From(content_value, url_start + 4)))
            ELSE Semicolon(find(content_value, ";"))
    IN  UrlStart(find(to_lowercase(content_value), "url="))

\* the first meta tag taken to run to the end of the document
first_meta_tag_unclosed(html) ==
    LET start == find(to_lowercase(html), "<meta")
    IN  IF start = 0 \/ find(From(to_lowercase(html), start), ">") = 0 THEN None
        ELSE Some(From(html, start))

\* the first "<meta" of the document up to the first ">" after it
first_meta_tag(html) ==
    LET Tag(start, end) ==
            IF start = 0 \/ end = 0 THEN None
            ELSE Some(SubSeq(html, start, start + end - 2))
        Start(html_lower, start) == Tag(start, find(From(html_lower, start), ">"))
        Lower(html_lower) == Start(html_lower, find(html_lower, "<meta"))
    IN  Lower(to_lowercase(html))

\* extract_meta_refresh
extract_meta_refresh(html) ==
    LET Value(content_value) ==
            IF content_value = None THEN None ELSE content_url(content_value[1])
        Quoted(content_part, quote_char) ==
            Value(IF quote_char # " " THEN up_to_quote(content_part, quote_char)
                  ELSE first_word(content_part))
        Content(content_part) ==
            Quoted(content_part, IF starts_with(content_part, "\"") THEN "\""
                                 ELSE IF starts_with(content_part, "'") THEN "'"
                                 ELSE " ")
        ContentStart(meta_tag, content_start) ==
            IF content_start = 0 THEN None
            ELSE Content(From(meta_tag, content_start + 8))
        Tag(meta_tag, meta_lower) ==
            IF ~(contains(meta_lower, "http-equiv") /\ contains(meta_lower, "refresh"))
            THEN None
            ELSE ContentStart(meta_tag, find(meta_lower, "content="))
        Found(found) ==
            IF found = None THEN None ELSE Tag(found[1], to_lowercase(found[1]))
    IN  Found(first_meta_tag(html))

(***************************************************************************)
(* resolve: errors, the request and the relative targets                   *)
(***************************************************************************)
\* e.to_string() of the errors an attempt can return
error_to_string(e) ==
    CASE e = "TooManyMetaRefresh" -> "Too many meta refresh redirects"
      [] e = "Builder" -> "builder error"
      [] e = "Send" -> "error sending request"
      [] e = "Body" -> "error decoding response body"
      [] e = "EmptyHost" -> "empty host"
      [] e = "InvalidDomainCharacter" -> "invalid domain character"
      [] OTHER -> "relative URL without a base"

\* every error taken as retryable
retry_when_any(e) == TRUE

\* .when(|e| e.to_string() == "retryable")
retry_when(e) == error_to_string(e) = "retryable"

\* ExponentialBuilder::default(): max_times
MaxTimes == 3

\* the cap on the depth of resolve_helper
MaxMetaRefresh == 5

\* the cap checked one hop late
too_many_late(depth) == depth > MaxMetaRefresh + 1

\* if depth > 5
too_many(depth) == depth > MaxMetaRefresh

\* the recursion entered two levels deeper
next_depth_skipping(depth) == depth + 2

\* the recursion entered without advancing the depth
next_depth_same(depth) == depth

\* resolve_helper(meta_url, depth + 1)
next_depth(depth) == depth + 1

\* the GET requests of an attempt are counted up to here
MaxGetsCounted == 7

\* one more GET request sent
count_get(gets) == IF gets < MaxGetsCounted THEN gets + 1 ELSE gets

\* the identity strings ua::spoof_chrome_ua() draws from
UserAgents == {"Chrome/1", "Chrome/2"}

\* the clients of a process are counted up to here
MaxClientsCounted == 7

\* one more client built
count_client(clients) == IF clients < MaxClientsCounted THEN clients + 1 ELSE clients

\* one client shared by every call of resolve_helper
Client_build_shared(clients, user_agent) == [id |-> 1, user_agent |-> user_agent]

\* reqwest::Client::builder()...user_agent(ua::spoof_chrome_ua())...build():
\* a client that no earlier call has built, with the identity drawn for it
Client_build(clients, user_agent) == [id |-> clients + 1, user_agent |-> user_agent]

\* the status codes a server can answer with
Statuses == {200, 404, 500}

\* the request failed on a status of 400 and above, as error_for_status would
send_outcome_for_status(code) == IF code >= 400 THEN "Status" ELSE "Ok"

\* client.get(url).send().await? on a response with this status code: send()
\* returns the response whatever its status
send_outcome(code) == "Ok"

\* client.get(url): the request can be built for an http(s) URL only
request_url(url) ==
    LET Parsed(parsed) ==
            IF parsed.ok /\ scheme_supported(parsed.url.scheme) THEN Some(parsed.url) ELSE None
    IN  Parsed(Url_parse(url))

\* Url::join: a reference resolved against the URL of a response
Url_join(base, reference) ==
    LET r     == trim(reference)
        colon == find(r, ":")
        origin == base.scheme \o "://" \o base.host[1]
        dir   == SubSeq(base.path, 1, rfind(base.path, "/"))
        base_query == IF Len(base.query) = 1 THEN "?" \o base.query[1] ELSE ""
        absolute == /\ colon > 1 /\ AllIn(SubSeq(r, 1, colon - 1), SchemeChars)
                    /\ Ch(r, 1) \in AlphaSet
    IN  IF ~absolute /\ Len(r) = 0 THEN ParseOk([base EXCEPT !.fragment = None])
        ELSE Url_parse(
                IF absolute THEN r
                ELSE IF starts_with(r, "//") THEN base.scheme \o ":" \o r
                ELSE IF starts_with(r, "/") THEN origin \o r
                ELSE IF starts_with(r, "?") THEN origin \o base.path \o r
                ELSE IF starts_with(r, "#") THEN origin \o base.path \o base_query \o r
                ELSE origin \o dir \o r)

\* a target that cannot be resolved taken as it is
meta_target_lenient(final_url, meta_url) ==
    IF starts_with(meta_url, "http") \/ ~Url_join(final_url, meta_url).ok
    THEN Ok(meta_url)
    ELSE Ok(Url_to_string(Url_join(final_url, meta_url).url))

\* the target taken as it is, relative or not
meta_target_verbatim(final_url, meta_url) == Ok(meta_url)

\* the url the recursion continues with: Ok(url) or Err(parse error)
meta_target(final_url, meta_url) ==
    IF starts_with(meta_url, "http") THEN Ok(meta_url)
    ELSE LET Joined(joined) ==
                 IF joined.ok THEN Ok(Url_to_string(joined.url)) ELSE Err(joined.err)
         IN  Joined(Url_join(final_url, meta_url))

\* the requested URL returned in place of the final one
done_value_requested(url, final_url) == url

\* Ok(final_url.to_string())
done_value(url, final_url) == Url_to_string(final_url)

(***************************************************************************)
(* The environment: the command line, and what the servers answer.         *)
(***************************************************************************)
CliUrls ==
    { "https://a.com/s", "https://www.reddit.com/r/s/s/x",
      "hxxp://example.com", "not a valid url" }

\* where the server-side redirects of a request can land, besides the
\* requested URL itself
Landings ==
    { "https://www.reddit.com/r/s/comments/p/g/?utm=1",
      "https://www.facebook.com/share/p/1",
      "https://b.com" }

Bodies ==
    { "",
      "<html><body>No redirect here</body></html>",
      "<meta charset=\"utf-8\"><meta http-equiv=\"refresh\" content=\"0;url=/x\">",
      "<meta http-equiv=\"refresh\" content=\"0;url=https://a.com/s\">",
      "<META HTTP-EQUIV=REFRESH CONTENT=0;URL=/r/s/comments/p>",
      "<meta http-equiv='refresh' content='0;url=//'>",
      "<meta http-equiv=\"refresh\" content=\"0;url=httpx\">" }

(***************************************************************************)
(* The state                                                               *)
(***************************************************************************)
VARIABLES
    pc,          \* where the program is
    cli_url,     \* main: cli.url
    url,         \* resolve_helper: url
    depth,       \* resolve_helper: depth
    response,    \* resolve_helper: the response whose body is not read yet
    status,      \* the status code of the response to this call's request, if any
    final_url,   \* resolve_helper: final_url, Some(Url) once a response came
    html,        \* resolve_helper: html, Some(body) once the body was read
    meta_url,    \* Some(what extract_meta_refresh returned), None before the call
    client,      \* resolve_helper: client, Some(Client) once this call has built it
    clients,     \* the clients built since the process started
    used_clients, \* the clients that have sent a GET request
    attempt,     \* what the running attempt returned, None while it runs
    attempts,    \* the attempts the retry wrapper has started
    gets,        \* the GET requests sent in the running attempt
    resolved,    \* what resolve returned, None before
    clean_input, \* clean_url: the argument
    cleaner,     \* clean_url: the cleaner the dispatch chose, "" before
    cleaned,     \* what clean_url returned, None before
    recleaned,   \* what clean_url returned on its own output, None before
    stdout,      \* the lines printed to standard output
    stderr,      \* the lines printed to standard error
    clipboard,   \* the text copied to the clipboard
    exit_code    \* Some(code) once the process has exited

resolver_vars ==
    <<url, depth, response, status, final_url, html, meta_url, client, clients,
      used_clients,
      attempt, attempts, gets, resolved>>
clean_vars == <<clean_input, cleaner, cleaned, recleaned>>
main_vars == <<cli_url, stdout, stderr, clipboard, exit_code>>
vars == <<pc, resolver_vars, clean_vars, main_vars>>

\* the cleaner clean_url applies to an input, "" when it applies none
applied_cleaner(input) ==
    LET Applied(name) == IF name \in {"RedditCleaner", "FacebookCleaner"} THEN name ELSE ""
        Parsed(parsed) ==
            IF parsed.ok /\ scheme_supported(parsed.url.scheme) /\ parsed.url.host # None
            THEN Applied(Dispatch(parsed.url.host[1])) ELSE ""
    IN  Parsed(Url_parse(input))

Init ==
    /\ pc = "resolve_helper"
    /\ cli_url \in CliUrls
    /\ url = cli_url
    /\ depth = 0
    /\ response = None
    /\ status = None
    /\ final_url = None
    /\ html = None
    /\ meta_url = None
    /\ client = None
    /\ clients = 0
    /\ used_clients = {}
    /\ attempt = None
    /\ attempts = 1
    /\ gets = 0
    /\ resolved = None
    /\ clean_input = ""
    /\ cleaner = ""
    /\ cleaned = None
    /\ recleaned = None
    /\ stdout = <<>>
    /\ stderr = <<>>
    /\ clipboard = None
    /\ exit_code = None

\* resolve_helper up to the request: the depth check and the client
ResolveHelper ==
    /\ pc = "resolve_helper"
    /\ IF too_many(depth)
       THEN /\ attempt' = Some(Err("TooManyMetaRefresh"))
            /\ pc' = "retry"
       ELSE \E built \in BOOLEAN :
               IF built
               THEN /\ \E user_agent \in UserAgents :
                          client' = Some(Client_build(clients, user_agent))
                    /\ clients' = count_client(clients)
                    /\ attempt' = attempt
                    /\ pc' = "send"
               ELSE /\ attempt' = Some(Err("Builder"))
                    /\ pc' = "retry"
                    /\ UNCHANGED <<client, clients>>
    /\ too_many(depth) => UNCHANGED <<client, clients>>
    /\ status' = None
    /\ UNCHANGED <<url, depth, response, final_url, html, meta_url, used_clients,
                   attempts, gets, resolved>>
    /\ UNCHANGED <<clean_vars, main_vars>>

\* client.get(url).send().await?
Send ==
    /\ pc = "send"
    /\ IF request_url(url) = None
       THEN /\ attempt' = Some(Err("Builder"))
            /\ pc' = "retry"
            /\ client' = None
            /\ UNCHANGED <<response, status, gets, used_clients>>
       ELSE \E sent \in BOOLEAN :
               IF sent
               THEN /\ \E landing \in {request_url(url)[1]}
                                      \cup {Url_parse(l).url : l \in Landings},
                          body \in Bodies, code \in Statuses :
                          /\ status' = Some(code)
                          /\ IF send_outcome(code) = "Ok"
                             THEN /\ response' = Some([url |-> landing, body |-> body,
                                                       status |-> code])
                                  /\ attempt' = attempt
                                  /\ pc' = "text"
                                  /\ UNCHANGED client
                             ELSE /\ attempt' = Some(Err(send_outcome(code)))
                                  /\ pc' = "retry"
                                  /\ client' = None
                                  /\ UNCHANGED response
                    /\ gets' = count_get(gets)
                    /\ used_clients' = used_clients \cup {client[1].id}
               ELSE /\ attempt' = Some(Err("Send"))
                    /\ gets' = count_get(gets)
                    /\ used_clients' = used_clients \cup {client[1].id}
                    /\ pc' = "retry"
                    /\ client' = None
                    /\ UNCHANGED <<response, status>>
    /\ UNCHANGED <<url, depth, final_url, html, meta_url, clients, attempts, resolved>>
    /\ UNCHANGED <<clean_vars, main_vars>>

\* resolve_helper from the response on: final_url, the body, the meta refresh
Text ==
    /\ pc = "text"
    /\ final_url' = Some(response[1].url)
    /\ response' = None
    /\ client' = None
    /\ \E read \in BOOLEAN :
          IF ~read
          THEN /\ attempt' = Some(Err("Body"))
               /\ pc' = "retry"
               /\ UNCHANGED <<url, depth, html, meta_url>>
          ELSE /\ html' = Some(response[1].body)
               /\ \E extracted \in {extract_meta_refresh(response[1].body)} :
                  /\ meta_url' = Some(extracted)
                  /\ IF extracted = None
                     THEN /\ attempt' = Some(Ok(done_value(url, response[1].url)))
                          /\ pc' = "retry"
                          /\ UNCHANGED <<url, depth>>
                     ELSE \E target \in {meta_target(response[1].url, extracted[1])} :
                          IF target.kind = "Ok"
                          THEN /\ url' = target.val
                               /\ depth' = next_depth(depth)
                               /\ pc' = "resolve_helper"
                               /\ attempt' = attempt
                          ELSE /\ attempt' = Some(target)
                               /\ pc' = "retry"
                               /\ UNCHANGED <<url, depth>>
    /\ UNCHANGED <<status, clients, used_clients, attempts, gets, resolved>>
    /\ UNCHANGED <<clean_vars, main_vars>>

\* resolve: the retry wrapper, once the attempt has returned
Retry ==
    /\ pc = "retry"
    /\ IF attempt[1].kind = "Err" /\ retry_when(attempt[1].val)
          /\ attempts <= MaxTimes
       THEN /\ attempts' = attempts + 1
            /\ url' = cli_url
            /\ depth' = 0
            /\ gets' = 0
            /\ attempt' = None
            /\ final_url' = None
            /\ html' = None
            /\ meta_url' = None
            /\ pc' = "resolve_helper"
            /\ UNCHANGED resolved
       ELSE /\ resolved' = attempt
            /\ pc' = "and_then"
            /\ UNCHANGED <<url, depth, gets, attempt, attempts, final_url, html, meta_url>>
    /\ UNCHANGED <<response, status, client, clients, used_clients>>
    /\ UNCHANGED <<clean_vars, main_vars>>

\* main: .and_then(|resolved_url| clean::clean_url(&resolved_url))
AndThen ==
    /\ pc = "and_then"
    /\ IF resolved[1].kind = "Ok"
       THEN /\ clean_input' = resolved[1].val
            /\ cleaner' = applied_cleaner(resolved[1].val)
            /\ cleaned' = Some(clean_url(resolved[1].val))
       ELSE UNCHANGED <<clean_input, cleaner, cleaned>>
    /\ pc' = "match"
    /\ UNCHANGED <<resolver_vars, recleaned, main_vars>>

\* main: the match on the result, to the exit of the process
Match ==
    /\ pc = "match"
    /\ IF resolved[1].kind = "Err"
       THEN /\ stderr' = Append(stderr, "Error: " \o error_to_string(resolved[1].val))
            /\ exit_code' = Some(1)
            /\ UNCHANGED <<stdout, clipboard>>
       ELSE IF cleaned[1].kind = "Err"
       THEN /\ stderr' = Append(stderr, "Error: " \o cleaned[1].val)
            /\ exit_code' = Some(1)
            /\ UNCHANGED <<stdout, clipboard>>
       ELSE IF cleaned[1].kind = "Panic"
       THEN /\ stderr' = Append(stderr, "panicked: " \o cleaned[1].val)
            /\ exit_code' = Some(101)
            /\ UNCHANGED <<stdout, clipboard>>
       ELSE /\ \E copied \in BOOLEAN :
                  IF copied
                  THEN clipboard' = Some(cleaned[1].val) /\ UNCHANGED stderr
                  ELSE /\ stderr' = Append(stderr,
                              "Warning: 2FA code could not be copied to clipboard")
                       /\ UNCHANGED clipboard
            /\ stdout' = Append(stdout, cleaned[1].val)
            /\ exit_code' = Some(0)
    /\ pc' = "exited"
    /\ UNCHANGED <<resolver_vars, clean_vars, cli_url>>

Next == ResolveHelper \/ Send \/ Text \/ Retry \/ AndThen \/ Match

Spec == Init /\ [][Next]_vars

\* the positions of the process, from the call of resolve to the exit of main
Positions ==
    {"resolve_helper", "send", "text", "retry", "and_then", "match", "exited"}

\* the process moves on from its position: a step of Next always does, and
\* one is possible at every position but the last
Advance == pc # "exited" /\ pc' \in Positions \ {pc}

\* every request returns (the 30 s timeout) and the code between two awaits runs on:
\* the process does not stay at a position before the exit for ever
FairSpec == Spec /\ WF_pc(Advance)

(***************************************************************************)
(* clean_url as a function of its input: the inputs are built from a       *)
(* scheme, a host, a path, a query and a fragment.                         *)
(***************************************************************************)
\* the longest path of an input, in segments
MaxSegments == 7

\* the most parameters of a query of an input
MaxParams == 2

\* the segments an input can hold at position n of a reddit.com path
RedditSegment(n) ==
    CASE n = 1 -> {"r", "u"}
      [] n = 2 -> {"s", ""}
      [] n = 3 -> {"comments", "about"}
      [] n = 4 -> {"p", ""}
      [] n = 5 -> {"g", "comment", ""}
      [] n = 6 -> {"c", ""}
      [] n = 7 -> {"x", ""}
      [] OTHER -> {""}

\* the segments an input can hold at position n of a facebook.com path
FacebookSegment(n) ==
    CASE n = 1 -> {"page", "groups", "reel", "permalink.php", "photo.php"}
      [] n = 2 -> {"posts", "g", "7", ""}
      [] n = 3 -> {"permalink", "8", ""}
      [] n = 4 -> {"9", ""}
      [] OTHER -> {""}

RECURSIVE RedditPathsOfLen(_)
RedditPathsOfLen(n) ==
    IF n = 0 THEN {""}
    ELSE {path \o "/" \o seg : path \in RedditPathsOfLen(n - 1), seg \in RedditSegment(n)}

RECURSIVE FacebookPathsOfLen(_)
FacebookPathsOfLen(n) ==
    IF n = 0 THEN {""}
    ELSE {path \o "/" \o seg : path \in FacebookPathsOfLen(n - 1),
                               seg \in FacebookSegment(n)}

RedditPaths == UNION {RedditPathsOfLen(n) : n \in 0..MaxSegments}
FacebookPaths == UNION {FacebookPathsOfLen(n) : n \in 0..MaxSegments}

\* the Facebook paths of the shapes the cleaner names, each with and without "/"
FacebookShapes ==
    { "/page/posts/8", "/groups/g/permalink/9", "/reel/7", "/permalink.php",
      "/photo.php", "/page/posts/8/", "/groups/g/permalink/9/", "/reel/7/",
      "/permalink.php/", "/photo.php/", "/page", "" }

QueryParams ==
    { "story_fbid=1", "id=2", "fbid=3", "comment_id=4", "rdid=5", "fbid=a+b%2Fc" }

RECURSIVE QueriesOfLen(_)
QueriesOfLen(n) ==
    IF n = 0 THEN {""}
    ELSE {q \o (IF Len(q) > 0 THEN "&" ELSE "") \o param :
             q \in QueriesOfLen(n - 1), param \in QueryParams}

\* "" for no query, or "?" and up to MaxParams parameters
Queries == {""} \cup {"?" \o q : q \in UNION {QueriesOfLen(n) : n \in 0..MaxParams}}

FewQueries == {"", "?utm_source=share&context=3", "?comment_id=4&rdid=5"}

Fragments == {"", "#f"}

Hosts ==
    { "reddit.com", "www.reddit.com", "WWW.Reddit.COM", "facebook.com",
      "m.facebook.com", "instagram.com", "example.com", "notreddit.com",
      "reddit.com.evil.org", "reddit.co.uk", "facebook.org", "localhost", "com" }

Schemes == {"https://", "http://", "HTTPS://", "http:", "https:///", "fpt://", "ftp://"}

\* strings that are not of the form scheme, host, path, query, fragment
OtherInputs ==
    { "", "not a valid url", "https://", "www.reddit.com/r/s/comments/p",
      "mailto:spez@reddit.com", "https://reddit.com/", "https://www.facebook.com/",
      " https://www.reddit.com/r/s/comments/p/g/ " }

CleanInputs ==
    {sch \o h \o path \o q : sch \in Schemes, h \in Hosts,
                             path \in {"", "/r/s/comments/p/g", "/reel/7", "/u/spez"},
                             q \in {"", "?fbid=3"}}
    \cup {"https://www.reddit.com" \o path \o q \o f :
             path \in RedditPaths, q \in FewQueries, f \in Fragments}
    \cup {"https://www.facebook.com" \o path \o q :
             path \in FacebookPaths, q \in FewQueries}
    \cup {"https://www.facebook.com" \o path \o q \o f :
             path \in FacebookShapes, q \in Queries, f \in Fragments}
    \cup OtherInputs

InitClean ==
    /\ pc = "clean_url"
    /\ clean_input \in CleanInputs
    /\ cleaner = ""
    /\ cleaned = None
    /\ recleaned = None
    /\ cli_url = ""
    /\ url = ""
    /\ depth = 0
    /\ response = None
    /\ status = None
    /\ final_url = None
    /\ html = None
    /\ meta_url = None
    /\ client = None
    /\ clients = 0
    /\ used_clients = {}
    /\ attempt = None
    /\ attempts = 0
    /\ gets = 0
    /\ resolved = None
    /\ stdout = <<>>
    /\ stderr = <<>>
    /\ clipboard = None
    /\ exit_code = None

\* clean_url(clean_input)
CleanUrl ==
    /\ pc = "clean_url"
    /\ cleaner' = applied_cleaner(clean_input)
    /\ cleaned' = Some(clean_url(clean_input))
    /\ pc' = "cleaned"
    /\ UNCHANGED <<clean_input, recleaned, resolver_vars, main_vars>>

\* clean_url on the URL that clean_url returned
CleanAgain ==
    /\ pc = "cleaned"
    /\ cleaned[1].kind = "Ok"
    /\ recleaned' = Some(clean_url(cleaned[1].val))
    /\ pc' = "recleaned"
    /\ UNCHANGED <<clean_input, cleaner, cleaned, resolver_vars, main_vars>>

NextClean == CleanUrl \/ CleanAgain

SpecClean == InitClean /\ [][NextClean]_vars

(***************************************************************************)
(* The resolver                                                            *)
(***************************************************************************)
\* the attempt has returned to the retry wrapper, or resolve has returned
AttemptEnded == attempt # None

\* C1: in one attempt, more than 5 meta-refresh hops end in the "Too many meta
\* refresh redirects" failure, at most 5 hops whose last page carries no meta
\* refresh end in success, no GET is issued at a depth above 5, and at most 6
\* GETs are sent.
DepthCapped ==
    /\ depth <= MaxMetaRefresh + 1
    /\ gets <= MaxMetaRefresh + 1
    /\ pc \in {"send", "text"} => depth <= MaxMetaRefresh
    /\ gets <= depth + 1
    /\ (AttemptEnded /\ depth > MaxMetaRefresh)
          => attempt[1] = Err("TooManyMetaRefresh")
    /\ (AttemptEnded /\ attempt[1] = Err("TooManyMetaRefresh"))
          => (depth = MaxMetaRefresh + 1 /\ gets = MaxMetaRefresh + 1)
    /\ (AttemptEnded /\ depth <= MaxMetaRefresh /\ html # None
        /\ extract_meta_refresh(html[1]) = None)
          => attempt[1].kind = "Ok"

\* a sixth hop was followed and the attempt failed on the cap
DepthCappedWitness ==
    /\ AttemptEnded
    /\ depth = MaxMetaRefresh + 1
    /\ gets = MaxMetaRefresh + 1
    /\ attempt[1] = Err("TooManyMetaRefresh")

\* C2: every call of resolve ends, in Done(url) or Failed(error), whatever the
\* pages answer, pages that refresh to themselves or in a cycle included.
ResolveTerminates == <>(resolved # None)

\* resolve returned after a page that refreshes to itself was followed to the cap
ResolveTerminatesWitness ==
    /\ resolved # None
    /\ depth = MaxMetaRefresh + 1
    /\ final_url # None
    /\ url = Url_to_string(final_url[1])

\* C3: when the body read at the current depth yields no meta-refresh target, the
\* attempt ends in Done with the final URL of that fetch and sends no other request.
DoneIsFinalUrl ==
    [][ /\ ( /\ pc = "text"
              /\ html' = Some(response[1].body)
              /\ extract_meta_refresh(response[1].body) = None )
           => ( /\ attempt' = Some(Ok(Url_to_string(response[1].url)))
                /\ pc' = "retry"
                /\ gets' = gets )
        /\ (AttemptEnded /\ attempt[1].kind = "Ok") => gets' = gets
      ]_vars

\* an attempt is done on a final URL that is not the URL it requested, after a hop
DoneIsFinalUrlWitness ==
    /\ AttemptEnded
    /\ attempt[1].kind = "Ok"
    /\ depth > 0
    /\ attempt[1].val = Url_to_string(final_url[1])
    /\ attempt[1].val # url

InputUrl == Url_parse(clean_input)

\* clean_url has returned on an http(s) URL
CleanedHttp ==
    /\ cleaned # None
    /\ InputUrl.ok
    /\ scheme_supported(InputUrl.url.scheme)
    /\ InputUrl.url.host # None

\* the registrable domain of each host of the inputs, "" for a host without one
RegistrableDomain(host) ==
    CASE host \in {"reddit.com", "www.reddit.com"} -> "reddit.com"
      [] host \in {"facebook.com", "m.facebook.com", "www.facebook.com"} -> "facebook.com"
      [] host = "instagram.com" -> "instagram.com"
      [] host = "example.com" -> "example.com"
      [] host = "notreddit.com" -> "notreddit.com"
      [] host = "reddit.com.evil.org" -> "evil.org"
      [] host = "reddit.co.uk" -> "reddit.co.uk"
      [] host = "facebook.org" -> "facebook.org"
      [] host \in {"localhost", "com"} -> ""

InputDomain == RegistrableDomain(InputUrl.url.host[1])

\* the errors clean_url makes before a rule is applied
DispatchErrors == {Err("UnknownDomain"), Err("UnsupportedUrlHost")}

\* C5: clean_url dispatches by equality on the registrable domain of the host:
\* reddit.com (any subdomain) gets the Reddit rule, facebook.com the Facebook
\* rule, every other registrable domain yields Unsupported-Host without a rule
\* applied, and a host without a registrable domain yields Unknown-Domain.
DispatchByDomain ==
    CleanedHttp =>
        CASE InputDomain = "reddit.com" ->
                cleaner = "RedditCleaner" /\ cleaned[1] \notin DispatchErrors
          [] InputDomain = "facebook.com" ->
                cleaner = "FacebookCleaner" /\ cleaned[1] \notin DispatchErrors
          [] InputDomain = "" ->
                cleaner = "" /\ cleaned[1] = Err("UnknownDomain")
          [] OTHER ->
                cleaner = "" /\ cleaned[1] = Err("UnsupportedUrlHost")

\* a host that only ends in reddit.com was refused without the Reddit rule
DispatchByDomainWitness ==
    /\ clean_input = "https://notreddit.com/r/s/comments/p/g"
    /\ cleaner = ""
    /\ cleaned = Some(Err("UnsupportedUrlHost"))

\* the segments of the input's path after the removal of one trailing empty one
InputSegments == split(From(pop_if_empty(InputUrl.url.path), 2), "/")

\* the path is of a shape the platform's rule accepts
AcceptedShape ==
    IF InputDomain = "reddit.com"
    THEN \/ is_post_without_short_name(InputSegments)
         \/ is_post_with_short_name(InputSegments)
         \/ is_comment(InputSegments)
    ELSE \/ is_page_post(InputSegments)
         \/ is_group_post(InputSegments)
         \/ is_reel(InputSegments)
         \/ InputSegments = <<"permalink.php">>
         \/ InputSegments = <<"photo.php">>

\* C6: a URL on a supported platform whose path, after the removal of one
\* trailing empty segment, matches none of the platform's accepted shapes makes
\* clean_url return the Unsupported-Path error.
UnsupportedPathReported ==
    ( /\ CleanedHttp
      /\ InputDomain \in {"reddit.com", "facebook.com"}
      /\ ~AcceptedShape )
    => cleaned[1] = Err("UnsupportedUrlPath")

\* the error kinds of a Cleaning Outcome
IsErrorKind(e) ==
    \/ e \in {"PathSegmentsError", "UnknownDomain", "UnsupportedUrlScheme",
              "UnsupportedUrlHost", "UnsupportedUrlPath"}
    \/ starts_with(e, "ParseError(")

\* C7: for every input, clean_url ends in one Cleaning Outcome, a cleaned URL
\* or one of the fixed error kinds; so for every facebook.com URL, whatever its
\* path and whichever of story_fbid, id, fbid and comment_id it carries.
OneCleaningOutcome ==
    cleaned # None =>
        \/ cleaned[1].kind = "Ok"
        \/ cleaned[1].kind = "Err" /\ IsErrorKind(cleaned[1].val)

\* C8: cleaning is idempotent: where clean_url succeeds, clean_url of its output
\* succeeds too and returns the output unchanged, empty wildcard segments
\* included.
CleanIdempotent == recleaned # None => recleaned = cleaned

\* the path segments of the input as they were given
GivenSegments == path_segments(InputUrl.url)

\* the input is /r/s/comments/p, /r/s/comments/p/g or /r/s/comments/p/g/ on reddit.com
IsPostInput ==
    /\ CleanedHttp
    /\ InputDomain = "reddit.com"
    /\ Len(GivenSegments) \in 4..6
    /\ GivenSegments[1] = "r"
    /\ GivenSegments[3] = "comments"
    /\ GivenSegments[4] # ""
    /\ Len(GivenSegments) = 6 => GivenSegments[6] = ""

\* the input is /r/s/comments/p/comment/c or the same with "/" on reddit.com
IsCommentInput ==
    /\ CleanedHttp
    /\ InputDomain = "reddit.com"
    /\ Len(GivenSegments) \in 6..7
    /\ GivenSegments[1] = "r"
    /\ GivenSegments[3] = "comments"
    /\ GivenSegments[5] = "comment"
    /\ GivenSegments[6] # ""
    /\ Len(GivenSegments) = 7 => GivenSegments[7] = ""

\* the input's URL with the first n segments as its path and without its query
CutTo(n) ==
    Url_to_string([InputUrl.url EXCEPT
                      !.path = "/" \o Join(SubSeq(GivenSegments, 1, n), "/"),
                      !.query = None])

ReplaceQuery(input, q) ==
    LET given == trim(input)
        hash == find(given, "#")
        head == IF hash = 0 THEN given ELSE SubSeq(given, 1, hash - 1)
        frag == IF hash = 0 THEN "" ELSE From(given, hash)
        mark == find(head, "?")
        base == IF mark = 0 THEN head ELSE SubSeq(head, 1, mark - 1)
    IN  base \o q \o frag

\* the queries a Reddit URL is given in place of its own
OtherQueries == FewQueries \cup {"?", "?fbid=a+b%2Fc&id=2"}

\* C10: the outcome of cleaning a Reddit URL does not depend on its query: the
\* URL with any other query in place of its own gets the same outcome, and a
\* successful output has no query.
QueryIgnored ==
    (CleanedHttp /\ InputDomain = "reddit.com") =>
        /\ \A q \in OtherQueries : clean_url(ReplaceQuery(clean_input, q)) = cleaned[1]
        /\ cleaned[1].kind = "Ok" => Url_parse(cleaned[1].val).url.query = None

\* a comment URL with a query was cleaned to a URL without one
QueryIgnoredWitness ==
    /\ clean_input = "https://www.reddit.com/r/s/comments/p/comment/c?comment_id=4&rdid=5#f"
    /\ cleaned = Some(Ok("https://www.reddit.com/r/s/comments/p/comment/c#f"))

\* the parameters of the input's query, decoded
InputParams == query_pairs(InputUrl.url)

\* the input's query has a parameter named k
HasParam(k) == \E i \in 1..Len(InputParams) : InputParams[i][1] = k

\* the value of the input's parameter k, of the last one when it is repeated
ParamValue(k) ==
    LET last == CHOOSE i \in 1..Len(InputParams) :
                   /\ InputParams[i][1] = k
                   /\ \A j \in 1..Len(InputParams) : InputParams[j][1] = k => j <= i
    IN  InputParams[last][2]

\* clean_url has returned on a facebook.com URL
CleanedFacebook == CleanedHttp /\ InputDomain = "facebook.com"

\* the input's URL without its trailing empty segment, with the query q
WithQuery(q) ==
    Url_to_string([InputUrl.url EXCEPT !.path = pop_if_empty(InputUrl.url.path),
                                       !.query = q])

\* the parameters of the query of the URL that clean_url returned
OutputParams == query_pairs(Url_parse(cleaned[1].val).url)

\* C11: for a facebook.com URL addressed by its path the output query follows
\* from the shape: a page post and a reel get no query, comment_id or not; a
\* group post gets no query without comment_id and the single parameter
\* comment_id with its input value with one; every other parameter is dropped.
PathShapeQuery ==
    CleanedFacebook =>
        /\ (is_page_post(InputSegments) \/ is_reel(InputSegments))
              => cleaned[1] = Ok(WithQuery(None))
        /\ (is_group_post(InputSegments) /\ ~HasParam("comment_id"))
              => cleaned[1] = Ok(WithQuery(None))
        /\ (is_group_post(InputSegments) /\ HasParam("comment_id"))
              => /\ cleaned[1].kind = "Ok"
                 /\ OutputParams = << <<"comment_id", ParamValue("comment_id")>> >>
                 /\ cleaned[1].val = WithQuery(Some("comment_id="
                        \o byte_serialize(ParamValue("comment_id"))))

\* a group post with a comment_id and a referrer kept the comment_id alone
PathShapeQueryWitness ==
    /\ clean_input = "https://www.facebook.com/groups/g/permalink/9/?comment_id=4&rdid=5"
    /\ cleaned = Some(Ok("https://www.facebook.com/groups/g/permalink/9?comment_id=4"))

\* name=value as form_urlencoded writes it
Pair(k) == k \o "=" \o byte_serialize(ParamValue(k))

\* queries that carry the parameters of ids, in this and in the other order,
\* alone and among parameters of other names
Rearranged(ids) ==
    LET there == Join(ids, "&")
        back  == Join([i \in 1..Len(ids) |-> ids[Len(ids) + 1 - i]], "&")
    IN  { "?" \o there, "?" \o back, "?rdid=5&" \o there, "?" \o back \o "&set=a.1",
          "?type=3&" \o there \o "&rdid=5" }

\* the input's URL with the parameters of its query in the opposite order
Reordered ==
    LET pieces == split(InputUrl.url.query[1], "&")
        back   == [i \in 1..Len(pieces) |-> pieces[Len(pieces) + 1 - i]]
    IN  ReplaceQuery(clean_input, "?" \o Join(back, "&"))

\* the input is /permalink.php with story_fbid and id, or /photo.php with fbid
IsIdentityInput ==
    /\ CleanedFacebook
    /\ \/ /\ InputSegments = <<"permalink.php">>
          /\ HasParam("story_fbid")
          /\ HasParam("id")
       \/ /\ InputSegments = <<"photo.php">>
          /\ HasParam("fbid")

\* C12 as stated: the output of /permalink.php and /photo.php is the same
\* whatever the number and the order of the input's parameters, so the input
\* with its parameters in another order cleans to the same string.
OrderIgnored == IsIdentityInput => clean_url(Reordered) = cleaned[1]

\* C12, amended: for /permalink.php with story_fbid and id the output query is
\* story_fbid=<its value>&id=<its value>, for /photo.php with fbid it is
\* fbid=<its value>, the value of a repeated parameter being its last one;
\* every other parameter is dropped, so inputs that differ in the parameters
\* of other names, or in an order that keeps these values, clean to the same
\* string.
IdentityQuery ==
    CleanedFacebook =>
        /\ ( /\ InputSegments = <<"permalink.php">>
             /\ HasParam("story_fbid")
             /\ HasParam("id") )
           => /\ cleaned[1] = Ok(WithQuery(Some(Pair("story_fbid") \o "&" \o Pair("id"))))
              /\ OutputParams = << <<"story_fbid", ParamValue("story_fbid")>>,
                                   <<"id", ParamValue("id")>> >>
              /\ \A q \in Rearranged(<<Pair("story_fbid"), Pair("id")>>) :
                    clean_url(ReplaceQuery(clean_input, q)) = cleaned[1]
        /\ (InputSegments = <<"photo.php">> /\ HasParam("fbid"))
           => /\ cleaned[1] = Ok(WithQuery(Some(Pair("fbid"))))
              /\ OutputParams = << <<"fbid", ParamValue("fbid")>> >>
              /\ \A q \in Rearranged(<<Pair("fbid")>>) :
                    clean_url(ReplaceQuery(clean_input, q)) = cleaned[1]

\* a story link given as id, then story_fbid, was cleaned to story_fbid, then id
IdentityQueryWitness ==
    /\ clean_input = "https://www.facebook.com/permalink.php?id=2&story_fbid=1"
    /\ cleaned = Some(Ok("https://www.facebook.com/permalink.php?story_fbid=1&id=2"))

\* C13: clean_url on an http(s) URL of registrable domain instagram.com applies
\* the Instagram rule: it succeeds for every path and returns the input URL
\* without its query and without one trailing empty path segment.
InstagramCleaned ==
    (CleanedHttp /\ InputDomain = "instagram.com") =>
        /\ InstagramCleaner_clean(InputUrl.url).kind = "Ok"
        /\ cleaned[1] = Ok(Url_to_string(InstagramCleaner_clean(InputUrl.url).val))

(***************************************************************************)
(* The pipeline                                                            *)
(***************************************************************************)
\* resolve returned a URL and clean_url returned a cleaned URL for it
BothSucceeded ==
    /\ resolved # None
    /\ resolved[1].kind = "Ok"
    /\ cleaned # None
    /\ cleaned[1].kind = "Ok"

\* C14: the pipeline produces no partial output: the cleaned URL goes to
\* standard output (and the clipboard) and the exit code is 0 only when resolve
\* and then clean_url succeeded; when either step fails nothing goes to
\* standard output, the error goes to standard error, the exit code is 1, and
\* clean_url is not run after a failed resolve.
NoPartialOutput ==
    /\ pc # "exited" => (stdout = <<>> /\ clipboard = None /\ exit_code = None)
    /\ (resolved # None /\ resolved[1].kind = "Err") => cleaned = None
    /\ pc = "exited" =>
          IF BothSucceeded
          THEN /\ cleaned[1] = clean_url(resolved[1].val)
               /\ stdout = <<cleaned[1].val>>
               /\ clipboard \in {None, Some(cleaned[1].val)}
               /\ exit_code = Some(0)
          ELSE /\ stdout = <<>>
               /\ clipboard = None
               /\ Len(stderr) = 1
               /\ exit_code = Some(1)

(***************************************************************************)
(* extract_meta_refresh as a function of the document: the documents are   *)
(* meta tags written in each letter case and quoting style, and the        *)
(* documents of the unit tests without a target.                           *)
(***************************************************************************)
Casings == {"lower", "UPPER", "Mixed"}

TagName(c) ==
    CASE c = "lower" -> "<meta" [] c = "UPPER" -> "<META" [] OTHER -> "<Meta"

EquivName(c) ==
    CASE c = "lower" -> "http-equiv" [] c = "UPPER" -> "HTTP-EQUIV" [] OTHER -> "Http-Equiv"

RefreshWord(c) ==
    CASE c = "lower" -> "refresh" [] c = "UPPER" -> "REFRESH" [] OTHER -> "Refresh"

ContentName(c) ==
    CASE c = "lower" -> "content" [] c = "UPPER" -> "CONTENT" [] OTHER -> "Content"

\* the delimiters of an attribute value: double quotes, single quotes, none
Quotes == {"\"", "'", ""}

Tokens == {"url=", "URL=", "Url="}

Delays == {"0;", "5;", ""}

Targets == {"https://A.com/Path", "/Rel/Next"}

Attr(name, q, value) == name \o "=" \o q \o value \o q

\* a meta refresh tag; content_first puts the content attribute first
MetaTag(c, q, value, content_first) ==
    LET equiv   == Attr(EquivName(c), q, RefreshWord(c))
        content == Attr(ContentName(c), q, value)
    IN  TagName(c) \o " "
        \o (IF content_first THEN content \o " " \o equiv ELSE equiv \o " " \o content)
        \o ">"

\* the tags whose content value has no blank: they can be written in each style
RefreshDocs ==
    { MetaTag(c, q, d \o t \o u, o) :
        c \in Casings, q \in Quotes, d \in Delays, t \in Tokens, u \in Targets,
        o \in BOOLEAN }

\* the tags whose content value has a blank after the delay: quoted styles only
SpacedDocs ==
    { MetaTag(c, q, "0; " \o t \o u, o) :
        c \in Casings, q \in Quotes \ {""}, t \in Tokens, u \in Targets, o \in BOOLEAN }

\* documents without a meta tag
NoTagDocs == {"", "<html><body>No redirect here</body></html>", "<meta http-equiv=refresh"}

\* a first meta tag that lacks http-equiv, or lacks refresh
NotRefreshDocs ==
    { TagName(c) \o " " \o Attr(first[1], q, first[2]) \o " "
                 \o Attr(ContentName(c), q, "0;url=/Rel/Next") \o ">" :
        c \in Casings, q \in Quotes,
        first \in {<<"charset", "utf-8">>, <<"name", "refresh">>, <<"http-equiv", "x-ua">>} }

\* a refresh tag without a content attribute
NoContentDocs ==
    { TagName(c) \o " " \o Attr(EquivName(c), q, RefreshWord(c)) \o ">" :
        c \in Casings, q \in Quotes }

\* the content values without a url= token
NoUrlValues ==
    {"5", "5;", "0;/Rel/Next", "", "0;uri=/Rel/Next", "0; https://example.com"}

\* a refresh tag whose content value has no url= token
NoUrlDocs ==
    { MetaTag(c, q, value, o) :
        c \in Casings, q \in Quotes, value \in NoUrlValues, o \in BOOLEAN }
    \cup {"<meta http-equiv=\"refresh\" content=\">", "<meta http-equiv='refresh' content='0; /a'>"}

\* what a document holds before its first meta tag
Befores == {"", "<html><head>", "<p>http-equiv=refresh content=url=/B</p>"}

\* first meta tags that are not refresh tags, and first meta tags that are
FirstTags ==
    { "<meta charset=\"utf-8\">", "<meta name=\"x\" content=\"0;url=/N\">",
      "<meta http-equiv=\"refresh\">", "<META content='0;URL=/U'>",
      "<meta http-equiv=\"refresh\" content=\"0;url=/F\">",
      "<meta http-equiv=refresh content=5>" }

\* what a document holds after its first meta tag
Afters ==
    { "", "<meta http-equiv=\"refresh\" content=\"0;url=/L\">",
      " http-equiv=refresh content=0;url=/L>", "</head><body>refresh</body>" }

\* documents with text around their first meta tag
LongerDocs ==
    {before \o first \o after : before \in Befores, first \in FirstTags, after \in Afters}

Documents ==
    RefreshDocs \cup SpacedDocs \cup NoTagDocs \cup NotRefreshDocs \cup NoContentDocs
    \cup NoUrlDocs \cup LongerDocs

InitExtract ==
    /\ pc = "extract_meta_refresh"
    /\ html \in {Some(document) : document \in Documents}
    /\ meta_url = None
    /\ client = None
    /\ clients = 0
    /\ used_clients = {}
    /\ cli_url = ""
    /\ url = ""
    /\ depth = 0
    /\ response = None
    /\ status = None
    /\ final_url = None
    /\ attempt = None
    /\ attempts = 0
    /\ gets = 0
    /\ resolved = None
    /\ clean_input = ""
    /\ cleaner = ""
    /\ cleaned = None
    /\ recleaned = None
    /\ stdout = <<>>
    /\ stderr = <<>>
    /\ clipboard = None
    /\ exit_code = None

\* extract_meta_refresh(&html)
Extract ==
    /\ pc = "extract_meta_refresh"
    /\ meta_url' = Some(extract_meta_refresh(html[1]))
    /\ pc' = "extracted"
    /\ UNCHANGED <<url, depth, response, status, final_url, html, client, clients,
                   used_clients, attempt, attempts, gets,
                   resolved, clean_vars, main_vars>>

NextExtract == Extract

SpecExtract == InitExtract /\ [][NextExtract]_vars

\* extract_meta_refresh has returned on the document
Extracted == pc = "extracted" /\ meta_url # None

\* C15: extract_meta_refresh returns the same target for the same content
\* value whatever the delimiters of the attributes (double quotes, single
\* quotes, none) and whatever the letter case of the tag name, the attribute
\* names, the word refresh and the url= token; the target keeps the letter
\* case of the URL.
StyleAndCaseIgnored ==
    Extracted =>
        \A c \in Casings, t \in Tokens, u \in Targets, o \in BOOLEAN :
            /\ \A q \in Quotes, d \in Delays :
                  html = Some(MetaTag(c, q, d \o t \o u, o)) => meta_url[1] = Some(u)
            /\ \A q \in Quotes \ {""} :
                  html = Some(MetaTag(c, q, "0; " \o t \o u, o)) => meta_url[1] = Some(u)

\* an upper-case tag without quotes gave the target in its own letter case
StyleAndCaseIgnoredWitness ==
    /\ Extracted
    /\ html = Some("<META HTTP-EQUIV=REFRESH CONTENT=0;URL=https://A.com/Path>")
    /\ meta_url = Some(Some("https://A.com/Path"))

\* C16: extract_meta_refresh yields none for an empty document, for a document
\* without a <meta tag, for a first meta tag that lacks http-equiv or refresh,
\* for a refresh tag without a content attribute, and for a content value with
\* neither a url= token nor a url= after a semicolon (content="5").
NoneWithoutTarget ==
    ( /\ Extracted
      /\ html[1] \in NoTagDocs \cup NotRefreshDocs \cup NoContentDocs \cup NoUrlDocs )
    => meta_url[1] = None

\* a refresh tag with a delay and no url gave none
NoneWithoutTargetWitness ==
    /\ Extracted
    /\ html = Some("<meta http-equiv=\"refresh\" content=\"5\">")
    /\ meta_url = Some(None)

(***************************************************************************)
(* The resolver: the hops and the failures                                 *)
(***************************************************************************)
\* the target begins with the token http
BeginsWithHttp(target) == Len(target) >= 4 /\ SubSeq(target, 1, 4) = "http"

\* the step reads the body of the response and finds a target in it
FindsTarget ==
    /\ pc = "text"
    /\ attempt' # Some(Err("Body"))
    /\ html' = Some(response[1].body)
    /\ meta_url' # None
    /\ meta_url'[1] # None

\* C17: when a meta-refresh target is found, the next URL to fetch is the
\* target as it is when it begins with an HTTP scheme token, and else the
\* target resolved against the final URL of the fetch that returned it; the
\* recursion continues at depth + 1.
NextIsTarget ==
    [][ FindsTarget =>
          LET target == meta_url'[1][1]
              joined == Url_join(response[1].url, target)
          IN  /\ meta_url'[1] = extract_meta_refresh(response[1].body)
              /\ BeginsWithHttp(target)
                    => (url' = target /\ depth' = depth + 1 /\ pc' = "resolve_helper")
              /\ (~BeginsWithHttp(target) /\ joined.ok)
                    => ( /\ url' = Url_to_string(joined.url)
                         /\ depth' = depth + 1
                         /\ pc' = "resolve_helper" )
      ]_vars

\* a relative target was resolved against the URL the request landed on,
\* which is not the URL that was requested
NextIsTargetWitness ==
    /\ pc = "resolve_helper"
    /\ depth = 1
    /\ cli_url = "https://a.com/s"
    /\ final_url = Some(Url_parse("https://b.com").url)
    /\ meta_url = Some(Some("/r/s/comments/p"))
    /\ url = "https://b.com/r/s/comments/p"

(***************************************************************************)
(* The cleaner: the order of the checks                                    *)
(***************************************************************************)
\* the errors of the platform rules
RuleErrors == {Err("UnsupportedUrlPath"), Err("PathSegmentsError")}

\* C18: clean_url checks the parse, the scheme, the registrable domain and the
\* platform rule in this order and reports the first check that fails: a
\* scheme other than http and https yields Unsupported-Scheme whatever the host
\* and the path, and an http(s) URL on an unsupported or unclassifiable host
\* yields Unsupported-Host or Unknown-Domain whatever its path and query.
ChecksInOrder ==
    cleaned # None =>
        /\ ~InputUrl.ok
              => (cleaned[1].kind = "Err" /\ starts_with(cleaned[1].val, "ParseError("))
        /\ (InputUrl.ok /\ InputUrl.url.scheme \notin {"http", "https"})
              => cleaned[1] = Err("UnsupportedUrlScheme")
        /\ (InputUrl.ok /\ InputUrl.url.scheme \in {"http", "https"})
              => /\ InputDomain = "" => cleaned[1] = Err("UnknownDomain")
                 /\ InputDomain \notin {"", "reddit.com", "facebook.com"}
                       => cleaned[1] = Err("UnsupportedUrlHost")
                 /\ cleaned[1] \in RuleErrors
                       => InputDomain \in {"reddit.com", "facebook.com"}

\* a URL that fails the scheme, the domain and the path checks alike was
\* refused for its scheme
ChecksInOrderWitness ==
    /\ clean_input = "ftp://localhost/u/spez?fbid=3"
    /\ cleaned = Some(Err("UnsupportedUrlScheme"))

\* the attempt has failed
AttemptFailed == attempt # None /\ attempt[1].kind = "Err"

\* C19: a failure at any depth of an attempt (the GET, the reading of the body,
\* the resolving of a relative target against the final URL) makes resolve fail
\* as a whole: the error reaches the caller unchanged and resolve never returns
\* the URL of an earlier hop as a success.
FailurePropagates ==
    [][ /\ \* a request without a response fails the attempt
           (pc = "send" /\ response' = None)
              => (attempt' # None /\ attempt'[1].kind = "Err" /\ pc' = "retry")
        /\ \* a target that cannot be resolved fails the attempt with the parse error
           ( /\ FindsTarget
             /\ ~BeginsWithHttp(meta_url'[1][1])
             /\ ~Url_join(response[1].url, meta_url'[1][1]).ok )
              => /\ attempt' = Some(Err(Url_join(response[1].url, meta_url'[1][1]).err))
                 /\ pc' = "retry"
        /\ \* the body is read, or the attempt fails
           pc = "text"
              => \/ attempt' = Some(Err("Body"))
                 \/ html' = Some(response[1].body)
        /\ \* a success is the URL of a page that was read and has no target
           (attempt = None /\ attempt' # None /\ attempt'[1].kind = "Ok")
              => /\ pc = "text"
                 /\ html' = Some(response[1].body)
                 /\ extract_meta_refresh(response[1].body) = None
                 /\ attempt'[1].val = Url_to_string(response[1].url)
        /\ \* the failure is what resolve returns, and nothing is fetched after it
           AttemptFailed
              => /\ attempt' = attempt
                 /\ gets' = gets
                 /\ depth' = depth
                 /\ resolved' \in {None, attempt}
                 /\ pc' \in {"and_then", "match", "exited"}
                 /\ pc = "retry" => resolved' = attempt
      ]_vars

\* a target without a host, found after a hop, failed resolve as a whole
FailurePropagatesWitness ==
    /\ resolved = Some(Err("EmptyHost"))
    /\ depth = 1
    /\ gets = 2
    /\ final_url # None
    /\ meta_url = Some(Some("//"))

\* C20: extract_meta_refresh looks at the first <meta tag of the document alone,
\* up to its first ">", and returns at most one target: the result is that of
\* the first tag on its own, none when the first tag is not a refresh tag even
\* if a later one is, and text outside the first tag does not count.
FirstTagAlone ==
    Extracted =>
        \A before \in Befores, first \in FirstTags, after \in Afters :
            html = Some(before \o first \o after)
               => /\ meta_url[1] = extract_meta_refresh(first)
                  /\ meta_url[1] = (IF first = "<meta http-equiv=\"refresh\" content=\"0;url=/F\">"
                                    THEN Some("/F") ELSE None)

\* a charset tag before a refresh tag gave none
FirstTagAloneWitness ==
    /\ Extracted
    /\ html = Some("<html><head><meta charset=\"utf-8\">"
                   \o "<meta http-equiv=\"refresh\" content=\"0;url=/L\">")
    /\ meta_url = Some(None)

(***************************************************************************)
(* The resolver: the state of an attempt                                   *)
(***************************************************************************)
\* the attempt is running: resolve_helper has not returned to the wrapper
Attempting == attempt = None

\* the step follows a target found in the body of the response just received
FollowsTarget ==
    /\ pc = "text"
    /\ response # None
    /\ extract_meta_refresh(response[1].body) # None
    /\ html' = Some(response[1].body)
    /\ LET target == extract_meta_refresh(response[1].body)[1]
       IN  url' = IF BeginsWithHttp(target) THEN target
                  ELSE Url_to_string(Url_join(response[1].url, target).url)

\* C21: an attempt starts at (input URL, depth 0); the depth grows by exactly 1
\* on each followed meta-refresh target and changes on no other step; the
\* current URL is replaced only by the target found in the body of the most
\* recent fetch; an attempt that runs either goes on at (new_url, depth + 1),
\* or keeps its state, or ends in Done or Failed, and an ended attempt has no
\* successor.
AttemptStateMachine ==
    [][ /\ \* before the first fetch the attempt is at the input URL, depth 0
           (Attempting /\ gets = 0) => (url = cli_url /\ depth = 0)
        /\ \* a running attempt goes on one level deeper, at the target, or stays
           (Attempting /\ attempt' = None)
              => \/ (url' = url /\ depth' = depth)
                 \/ (FollowsTarget /\ depth' = depth + 1)
        /\ \* the URL and the depth change together, on a followed target only
           (url' # url \/ depth' # depth)
              => (Attempting /\ attempt' = None /\ FollowsTarget /\ depth' = depth + 1)
        /\ \* the attempt ends in Done or Failed where it stands
           (Attempting /\ attempt' # None)
              => (attempt'[1].kind \in {"Ok", "Err"} /\ url' = url /\ depth' = depth)
        /\ \* Done and Failed have no successors
           ~Attempting => (attempt' = attempt /\ url' = url /\ depth' = depth)
      ]_vars

\* two targets were followed and the attempt is done at the second one
AttemptStateMachineWitness ==
    /\ attempt # None
    /\ attempt[1].kind = "Ok"
    /\ depth = 2
    /\ gets = 3
    /\ url # cli_url

(***************************************************************************)
(* The resolver: the HTTP client of a request                              *)
(***************************************************************************)
\* the step issues a GET request
IssuesGet == pc = "send" /\ gets' # gets

\* C22: every GET the resolver issues, at every depth and in every attempt,
\* uses a client built for that request alone, with an identity string drawn
\* for it: no client that sent the request of one hop sends the request of a
\* later hop or of a later attempt.
FreshClientPerGet ==
    [][ /\ \* a call of resolve_helper starts without a client and builds its own
           pc' = "resolve_helper" => client' = None
        /\ (pc = "resolve_helper" /\ pc' = "send")
              => /\ client = None /\ client' # None
                 /\ client'[1].id \notin 1..clients
                 /\ client'[1].id \notin used_clients
                 /\ client'[1].user_agent \in UserAgents
        /\ \* the request is sent by the client this call has built, its first use
           IssuesGet
              => /\ client # None
                 /\ client[1].id = clients
                 /\ client[1].id \notin used_clients
                 /\ used_clients' = used_clients \cup {client[1].id}
        /\ \* as many clients have sent a request as requests were sent
           Cardinality(used_clients) = gets
      ]_vars

\* the second hop of an attempt was requested by a second client, under the
\* identity drawn for it
FreshClientPerGetWitness ==
    /\ pc = "text"
    /\ depth = 1
    /\ gets = 2
    /\ used_clients = {1, 2}
    /\ client = Some([id |-> 2, user_agent |-> "Chrome/2"])

(***************************************************************************)
(* The cleaner: what cleaning leaves alone                                 *)
(***************************************************************************)
\* clean_url has returned a cleaned URL
CleanSucceeded == cleaned # None /\ cleaned[1].kind = "Ok"

\* the URL clean_url returned, parsed
OutputUrl == Url_parse(cleaned[1].val)

\* C23: cleaning never changes the scheme or the host: when clean_url succeeds,
\* its output is an absolute URL with the scheme and the host (subdomains such
\* as www. included) of the parsed input; only the path and the query may
\* differ.
SchemeAndHostKept ==
    CleanSucceeded =>
        /\ InputUrl.ok /\ OutputUrl.ok
        /\ OutputUrl.url.host # None
        /\ ~OutputUrl.url.cannot_be_a_base
        /\ OutputUrl.url.scheme = InputUrl.url.scheme
        /\ OutputUrl.url.host = InputUrl.url.host
        /\ [OutputUrl.url EXCEPT !.path = "", !.query = None]
              = [InputUrl.url EXCEPT !.path = "", !.query = None]

\* an http URL on the www subdomain, written in capitals, was cleaned: the
\* path and the query changed, the scheme and the host are those of the input
SchemeAndHostKeptWitness ==
    /\ clean_input = "http://WWW.Reddit.COM/r/s/comments/p/g?fbid=3"
    /\ cleaned = Some(Ok("http://www.reddit.com/r/s/comments/p"))
    /\ OutputUrl.url.host = Some("www.reddit.com")
    /\ OutputUrl.url.scheme = "http"

(***************************************************************************)
(* The extractor: the url= token                                           *)
(***************************************************************************)
\* the content values of the documents built by MetaTag
ContentValues ==
    {d \o t \o u : d \in Delays, t \in Tokens, u \in Targets}
    \cup {"0; " \o t \o u : t \in Tokens, u \in Targets}
    \cup NoUrlValues

\* the content value the extractor reads from the tag MetaTag(c, q, value, o):
\* the value between the quotes, or the first word when there are none
ValueRead(q, value) ==
    IF q = "" /\ \E i \in 1..Len(value) : Ch(value, i) = " "
    THEN SubSeq(value, 1, (CHOOSE i \in 1..Len(value) :
                              /\ Ch(value, i) = " "
                              /\ \A j \in 1..(i - 1) : Ch(value, j) # " ") - 1)
    ELSE value

\* the places of a content value where the token url= stands, in any letter case
UrlTokenAt(value) ==
    {i \in 1..(Len(value) - 3) :
        /\ Ch(value, i) \in {"u", "U"} /\ Ch(value, i + 1) \in {"r", "R"}
        /\ Ch(value, i + 2) \in {"l", "L"} /\ Ch(value, i + 3) = "="}

\* C24: extract_meta_refresh returns a target only when the content value
\* holds the token url= in some letter case, and the target is then what
\* follows the first such token: the branch that looks after the semicolon
\* never gives a target, so "0; https://example.com" yields none.
OnlyAfterUrlToken ==
    Extracted =>
        \A c \in Casings, q \in Quotes, value \in ContentValues, o \in BOOLEAN :
            ( /\ html = Some(MetaTag(c, q, value, o))
              /\ (q = "" => Len(value) > 0) )
            => LET read   == ValueRead(q, value)
                   tokens == UrlTokenAt(read)
               IN  /\ tokens = {} => meta_url[1] = None
                   /\ meta_url[1] # None
                         => /\ tokens # {}
                            /\ \E i \in tokens :
                                  /\ \A j \in tokens : i <= j
                                  /\ meta_url[1][1] = trim(From(read, i + 4))

\* a content value with a semicolon and a URL after it, without url=, gave none
OnlyAfterUrlTokenWitness ==
    /\ Extracted
    /\ html = Some("<meta http-equiv=\"refresh\" content=\"0; https://example.com\">")
    /\ meta_url = Some(None)

(***************************************************************************)
(* The resolver: the status code of a response                             *)
(***************************************************************************)
\* the step sends the request and the server answers it
ServerAnswers == pc = "send" /\ status' # None

\* the step reads the body of the response
ReadsBody ==
    /\ pc = "text"
    /\ attempt' # Some(Err("Body"))
    /\ html' = Some(response[1].body)

\* C25: the resolver never inspects the status code: a response of any status
\* (404 or 500, say) whose body holds no meta-refresh target ends the attempt
\* in Done with the final URL of that response, and a target found in the body
\* of an error response is followed like any other.
StatusIgnored ==
    [][ /\ \* an answer of any status is a response, and its body is read next
           ServerAnswers
              => /\ status'[1] \in Statuses
                 /\ response' # None
                 /\ response'[1].status = status'[1]
                 /\ attempt' = None
                 /\ pc' = "text"
        /\ \* what follows depends on the body and the final URL alone
           ReadsBody
              => LET found == extract_meta_refresh(response[1].body)
                 IN  /\ status = Some(response[1].status)
                     /\ found = None
                           => /\ attempt' = Some(Ok(Url_to_string(response[1].url)))
                              /\ pc' = "retry"
                     /\ (found # None /\ BeginsWithHttp(found[1]))
                           => /\ url' = found[1]
                              /\ depth' = depth + 1
                              /\ attempt' = None
                              /\ pc' = "resolve_helper"
                     /\ ( /\ found # None /\ ~BeginsWithHttp(found[1])
                          /\ Url_join(response[1].url, found[1]).ok )
                           => /\ url' = Url_to_string(Url_join(response[1].url, found[1]).url)
                              /\ depth' = depth + 1
                              /\ attempt' = None
                              /\ pc' = "resolve_helper"
      ]_vars

\* after a followed target the attempt is done on the final URL of a response
\* of status 404 whose body holds no target
StatusIgnoredWitness ==
    /\ depth = 1
    /\ gets = 2
    /\ status = Some(404)
    /\ html = Some("<html><body>No redirect here</body></html>")
    /\ final_url # None
    /\ attempt = Some(Ok(Url_to_string(final_url[1])))

\* the text of a URL from its first "#" on, "" when it has none
FragmentText(s) ==
    IF \E i \in 1..Len(s) : Ch(s, i) = "#"
    THEN SubSeq(s, CHOOSE i \in 1..Len(s) :
                       Ch(s, i) = "#" /\ \A j \in 1..(i - 1) : Ch(s, j) # "#",
                Len(s))
    ELSE ""

\* the parameters a Facebook rule writes back
IdentityNames == {"story_fbid", "id", "fbid", "comment_id"}

\* C26: cleaning leaves the fragment untouched: when clean_url succeeds on a
\* Reddit or Facebook URL the output carries exactly the fragment ("#...") of
\* the input, while the query is removed (Reddit) or rewritten from the
\* identity parameters of the input (Facebook).
FragmentKept ==
    (CleanSucceeded /\ InputDomain \in {"reddit.com", "facebook.com"}) =>
        /\ OutputUrl.url.fragment = InputUrl.url.fragment
        /\ FragmentText(cleaned[1].val) = FragmentText(trim(clean_input))
        /\ InputDomain = "reddit.com" => OutputUrl.url.query = None
        /\ InputDomain = "facebook.com"
              => \A i \in 1..Len(OutputParams) :
                    /\ OutputParams[i][1] \in IdentityNames
                    /\ HasParam(OutputParams[i][1])
                    /\ OutputParams[i][2] = ParamValue(OutputParams[i][1])

\* a photo URL with a query and a fragment was cleaned: the query was
\* rewritten in front of the fragment, which is the input's
FragmentKeptWitness ==
    /\ clean_input = "https://www.facebook.com/photo.php/?rdid=5&fbid=3#f"
    /\ cleaned = Some(Ok("https://www.facebook.com/photo.php?fbid=3#f"))
    /\ OutputUrl.url.fragment = Some("f")

====
